---- MODULE Spec2Model ----
(***************************************************************************)
(* ATM controller (src/src/atm_controller.py) with the bank, card reader   *)
(* and cash dispenser it is wired to (src/src/mocks/).  One action per     *)
(* public controller operation; every action is the whole handler,         *)
(* including the collaborator calls it makes and the session reset of its  *)
(* exception handler.  Amounts are abstract integer units.                 *)
(***************************************************************************)
EXTENDS Integers, Sequences, FiniteSets, TLC

\* ------------------------------------------------------------------ bounds
\* Largest ledger balance a deposit may produce (deposits are unbounded in
\* the code; the model stops depositing above this value).
MaxBalance == 2
\* Initial cash inventory of the dispenser (MockCashDispenser(initial_cash)).
MaxCash == 2
\* Largest amount a customer passes to deposit / withdraw.
MaxAmount == 2
\* Largest number of transactions logged in one session.
MaxLog == 2

VARIABLES
    state,                 \* ATMController._state
    current_card,          \* ATMController._current_card (card number, or None)
    current_account,       \* ATMController._current_account (reference to the bank's Account, or None)
    transaction_history,   \* ATMController._transaction_history
    accounts,              \* MockBankService._accounts (account number -> Account)
    available_cash,        \* MockCashDispenser._available_cash
    total_dispensed,       \* MockCashDispenser._total_dispensed
    card_inserted,         \* MockCardReader._card_inserted
    reader_card,           \* MockCardReader._current_card
    last,                  \* the operation that ran last: name, arguments, outcome, return value
    calls,                 \* the collaborator calls the last operation made, in order
    completed              \* the successful deposit/withdraw calls of the running session, in order

vars == <<state, current_card, current_account, transaction_history, accounts,
          available_cash, total_dispensed, card_inserted, reader_card,
          last, calls, completed>>

\* ------------------------------------------------------------- value types
None == "None"

IDLE == "idle"
CARD_INSERTED == "card_inserted"
PIN_VERIFIED == "pin_verified"
ACCOUNT_SELECTED == "account_selected"
ATMState == {IDLE, CARD_INSERTED, PIN_VERIFIED, ACCOUNT_SELECTED}

CHECKING == "checking"
SAVINGS == "savings"
CREDIT == "credit"

DEPOSIT == "deposit"
WITHDRAWAL == "withdrawal"
BALANCE_INQUIRY == "balance_inquiry"

\* The exception classes an operation can end with; OK is a normal return.
OK == "ok"
ATMException == "ATMException"
InvalidCardException == "InvalidCardException"
InvalidPinException == "InvalidPinException"
AccountNotFoundException == "AccountNotFoundException"
InsufficientFundsException == "InsufficientFundsException"
InsufficientCashException == "InsufficientCashException"
TransactionLimitExceededException == "TransactionLimitExceededException"
ValueError == "ValueError"

\* (mutant) a record built with amount and balance_after swapped.
Transaction_swapped(transaction_type, amount, account_number, balance_after) ==
    [transaction_type |-> transaction_type, amount |-> balance_after,
     account_number |-> account_number, balance_after |-> amount]

\* models.transaction.Transaction (transaction_id and timestamp left out)
Transaction(transaction_type, amount, account_number, balance_after) ==
    [transaction_type |-> transaction_type, amount |-> amount,
     account_number |-> account_number, balance_after |-> balance_after]

\* --------------------------------------------------- collaborator test data
\* MockBankService._cards: card number -> (pin, is_valid).  The first three
\* are the mock's own; the fourth is a card added with add_test_card, which
\* the bank accepts and whose expiry date (at the reader) has passed.
bank_cards ==
    [n \in {"1234567890123456", "2345678901234567", "3456789012345678", "4567890123456789"} |->
        CASE n = "1234567890123456" -> [pin |-> "1234", valid |-> TRUE]
          [] n = "2345678901234567" -> [pin |-> "5678", valid |-> TRUE]
          [] n = "3456789012345678" -> [pin |-> "9999", valid |-> FALSE]
          [] n = "4567890123456789" -> [pin |-> "4321", valid |-> TRUE]]

\* MockBankService._card_accounts.
bank_card_accounts ==
    [n \in {"1234567890123456", "2345678901234567", "4567890123456789"} |->
        CASE n = "1234567890123456" -> <<"1001", "1002">>
          [] n = "2345678901234567" -> <<"2001">>
          [] n = "4567890123456789" -> <<"1001">>]

AccountNumbers == {"1001", "1002", "2001"}

\* The daily withdrawal limit Account.__post_init__ gives an account built
\* without one: 1000, 500 and 300 for CHECKING, SAVINGS and CREDIT, here in
\* the model's unit of money (500, rounded up).
default_daily_withdrawal_limit(account_type) ==
    CASE account_type = CHECKING -> 2
      [] account_type = SAVINGS -> 1
      [] OTHER -> 1

\* The account types of the mock's accounts.
account_type_of ==
    [n \in AccountNumbers |->
        CASE n = "1001" -> CHECKING
          [] n = "1002" -> SAVINGS
          [] n = "2001" -> CHECKING]

\* MockCardReader._card_info: card number -> whether the expiry date has passed.
reader_card_info ==
    [n \in {"1234567890123456", "2345678901234567", "3456789012345678", "4567890123456789"} |->
        CASE n = "1234567890123456" -> [expired |-> FALSE]
          [] n = "2345678901234567" -> [expired |-> FALSE]
          [] n = "3456789012345678" -> [expired |-> TRUE]
          [] n = "4567890123456789" -> [expired |-> TRUE]]

\* What a customer can pass in.
CardInputs == DOMAIN bank_cards \cup {"0000000000000000"}
PinInputs == {"1234", "5678", "0000"}
AccountInputs == AccountNumbers \cup {"9999"}
AmountInputs == (-1)..MaxAmount

\* ------------------------------------------------------------ bank service
\* (mutant) a bank that validates every card number.
validate_card_accepts_all(card_number) == TRUE

\* MockBankService.validate_card
validate_card(card_number) ==
    card_number \in DOMAIN bank_cards /\ bank_cards[card_number].valid

verify_pin(card_number, pin) ==
    IF card_number \notin DOMAIN bank_cards \/ ~bank_cards[card_number].valid
    THEN FALSE
    ELSE bank_cards[card_number].pin = pin

\* (mutant) a bank that answers with the accounts of every card.
get_accounts_of_every_card(card_number) ==
    bank_card_accounts["1234567890123456"] \o bank_card_accounts["2345678901234567"]

\* The Account objects the bank links to a card, in order (as account numbers).
get_accounts(card_number) ==
    LET account_numbers == IF card_number \in DOMAIN bank_card_accounts
                           THEN bank_card_accounts[card_number] ELSE <<>>
    IN  SelectSeq(account_numbers, LAMBDA account_num : account_num \in DOMAIN accounts)

\* The bank's own Account object for the number (a reference), or None.
get_account(account_number) ==
    IF account_number \in DOMAIN accounts THEN account_number ELSE None

\* (mutant) the bank reports one unit more than the ledger holds.
bank_get_balance_off_by_one(ledger, account_number) ==
    IF account_number \notin DOMAIN ledger
    THEN [err |-> ValueError, value |-> 0]
    ELSE [err |-> OK, value |-> ledger[account_number].balance + 1]

\* (mutant) the balance the controller last recorded in this session, when
\* there is one, in place of the ledger's.
bank_get_balance_stale(ledger, account_number) ==
    IF account_number \notin DOMAIN ledger
    THEN [err |-> ValueError, value |-> 0]
    ELSE IF transaction_history # <<>>
    THEN [err |-> OK, value |-> transaction_history[Len(transaction_history)].balance_after]
    ELSE [err |-> OK, value |-> ledger[account_number].balance]

\* Outcome of MockBankService.get_balance on the ledger as it stands at the
\* call: the error raised (or OK) and the value.
bank_get_balance(ledger, account_number) ==
    IF account_number \notin DOMAIN ledger
    THEN [err |-> ValueError, value |-> 0]
    ELSE [err |-> OK, value |-> ledger[account_number].balance]

\* (mutant) a deposit that credits the ledger and returns the balance before
\* the credit.
bank_deposit_returns_old_balance(ledger, account_number, amount) ==
    IF account_number \notin DOMAIN ledger THEN [err |-> ValueError, accounts |-> ledger, value |-> 0]
    ELSE IF amount <= 0 THEN [err |-> ValueError, accounts |-> ledger, value |-> 0]
    ELSE [err |-> OK,
          accounts |-> [ledger EXCEPT ![account_number].balance = @ + amount],
          value |-> ledger[account_number].balance]

\* Outcome of MockBankService.deposit: error, the ledger afterwards, the new balance.
bank_deposit(ledger, account_number, amount) ==
    IF account_number \notin DOMAIN ledger THEN [err |-> ValueError, accounts |-> ledger, value |-> 0]
    ELSE IF amount <= 0 THEN [err |-> ValueError, accounts |-> ledger, value |-> 0]
    ELSE [err |-> OK,
          accounts |-> [ledger EXCEPT ![account_number].balance = @ + amount],
          value |-> ledger[account_number].balance + amount]

\* (mutant) a withdraw that refuses an amount above the account's daily limit.
bank_withdraw_enforces_limit(ledger, account_number, amount) ==
    IF account_number \notin DOMAIN ledger THEN [err |-> ValueError, accounts |-> ledger, value |-> 0]
    ELSE IF amount <= 0 THEN [err |-> ValueError, accounts |-> ledger, value |-> 0]
    ELSE IF amount > ledger[account_number].daily_withdrawal_limit
    THEN [err |-> TransactionLimitExceededException, accounts |-> ledger, value |-> 0]
    ELSE IF ledger[account_number].balance < amount
    THEN [err |-> InsufficientFundsException, accounts |-> ledger, value |-> 0]
    ELSE [err |-> OK,
          accounts |-> [ledger EXCEPT ![account_number].balance = @ - amount],
          value |-> ledger[account_number].balance - amount]

\* Outcome of MockBankService.withdraw.
bank_withdraw(ledger, account_number, amount) ==
    IF account_number \notin DOMAIN ledger THEN [err |-> ValueError, accounts |-> ledger, value |-> 0]
    ELSE IF amount <= 0 THEN [err |-> ValueError, accounts |-> ledger, value |-> 0]
    ELSE IF ledger[account_number].balance < amount
    THEN [err |-> InsufficientFundsException, accounts |-> ledger, value |-> 0]
    ELSE [err |-> OK,
          accounts |-> [ledger EXCEPT ![account_number].balance = @ - amount],
          value |-> ledger[account_number].balance - amount]

\* ------------------------------------------------------------------ account
\* Account.can_withdraw.  Python's `if self.daily_withdrawal_limit and ...`
\* skips the limit test when the limit is 0.
can_withdraw(account, amount) ==
    IF ~account.is_active THEN FALSE
    ELSE IF amount <= 0 THEN FALSE
    ELSE IF account.daily_withdrawal_limit # 0 /\ amount > account.daily_withdrawal_limit
    THEN FALSE
    ELSE IF account.account_type = CREDIT THEN TRUE
    ELSE account.balance >= amount

\* ------------------------------------------------------------- card reader
\* (mutant) a reader that hands out the expired card, which Card.__post_init__
\* has marked inactive, in place of raising.
read_card_returns_inactive(card_number) ==
    IF card_number = "" THEN [err |-> InvalidCardException, card |-> None]
    ELSE IF card_number \notin DOMAIN reader_card_info THEN [err |-> InvalidCardException, card |-> None]
    ELSE IF Len(card_number) < 12 THEN [err |-> InvalidCardException, card |-> None]
    ELSE [err |-> OK, card |-> card_number]

\* (mutant) a reader that does not look at the expiry date.
read_card_ignores_expiry(card_number) ==
    IF card_number = "" THEN [err |-> InvalidCardException, card |-> None]
    ELSE IF card_number \notin DOMAIN reader_card_info THEN [err |-> InvalidCardException, card |-> None]
    ELSE IF Len(card_number) < 12 THEN [err |-> InvalidCardException, card |-> None]
    ELSE [err |-> OK, card |-> card_number]

\* Outcome of MockCardReader.read_card: the error raised, or OK and the card.
read_card(card_number) ==
    IF card_number = "" THEN [err |-> InvalidCardException, card |-> None]
    ELSE IF card_number \notin DOMAIN reader_card_info THEN [err |-> InvalidCardException, card |-> None]
    ELSE IF Len(card_number) < 12 THEN [err |-> InvalidCardException, card |-> None]
    ELSE IF reader_card_info[card_number].expired THEN [err |-> InvalidCardException, card |-> None]
    ELSE [err |-> OK, card |-> card_number]

\* ---------------------------------------------------------- cash dispenser
\* (mutant) any cash at all counts as enough.
has_sufficient_cash_any(amount) == available_cash > 0

\* MockCashDispenser.has_sufficient_cash
has_sufficient_cash(amount) == available_cash >= amount

\* (mutant) a dispenser that counts the cash given out and keeps its inventory.
dispense_cash_keeps_inventory(amount) ==
    IF amount <= 0
    THEN [err |-> ValueError, available_cash |-> available_cash, total_dispensed |-> total_dispensed]
    ELSE IF ~has_sufficient_cash(amount)
    THEN [err |-> InsufficientCashException, available_cash |-> available_cash,
          total_dispensed |-> total_dispensed]
    ELSE [err |-> OK, available_cash |-> available_cash,
          total_dispensed |-> total_dispensed + amount]

\* Outcome of MockCashDispenser.dispense_cash: error, inventory and total afterwards.
dispense_cash(amount) ==
    IF amount <= 0
    THEN [err |-> ValueError, available_cash |-> available_cash, total_dispensed |-> total_dispensed]
    ELSE IF ~has_sufficient_cash(amount)
    THEN [err |-> InsufficientCashException, available_cash |-> available_cash,
          total_dispensed |-> total_dispensed]
    ELSE [err |-> OK, available_cash |-> available_cash - amount,
          total_dispensed |-> total_dispensed + amount]

\* ------------------------------------------------- observing an operation
\* One collaborator call: the method, its key argument, its amount, its result
\* ("True"/"False" for a boolean, OK or the exception raised otherwise).
Call(fn, key, amount, res) == [fn |-> fn, key |-> key, amount |-> amount, res |-> res]

\* The operation that just ran: `result` is OK or the exception it raised,
\* `ret` the value it returned (FALSE when it raised).
Report(op, key, amount, result, ret, trace) ==
    /\ last' = [op |-> op, key |-> key, amount |-> amount, result |-> result, ret |-> ret]
    /\ calls' = trace

\* -------------------------------------------------------------- controller
\* (mutant) a reset that forgets to clear the held card.
reset_session_keeps_card ==
    /\ state' = IDLE
    /\ current_card' = current_card
    /\ current_account' = None
    /\ transaction_history' = <<>>

\* (mutant) a reset that clears the session data and leaves the state.
reset_session_keeps_state ==
    /\ state' = state
    /\ current_card' = None
    /\ current_account' = None
    /\ transaction_history' = <<>>

\* (mutant) a reset that forgets to clear the transaction log.
reset_session_keeps_history ==
    /\ state' = IDLE
    /\ current_card' = None
    /\ current_account' = None
    /\ transaction_history' = transaction_history

\* (mutant) a reset that drops only the newest entry of the log.
reset_session_truncates_history ==
    /\ state' = IDLE
    /\ current_card' = None
    /\ current_account' = None
    /\ transaction_history' = SubSeq(transaction_history, 1, Len(transaction_history) - 1)

\* ATMController._reset_session
reset_session ==
    /\ state' = IDLE
    /\ current_card' = None
    /\ current_account' = None
    /\ transaction_history' = <<>>

\* (mutant) the controller's write with the value lost: the held Account is
\* left at zero.
set_cached_balance_zero(ledger, balance) ==
    [ledger EXCEPT ![current_account].balance = 0]

\* (mutant) the controller's write as `+=` in place of `=`.
set_cached_balance_adds(ledger, balance) ==
    [ledger EXCEPT ![current_account].balance = @ + balance]

\* The controller's write `self._current_account.balance = balance`.  The held
\* Account is the object MockBankService.get_account returned, which is the
\* object stored in the bank's _accounts, so the write lands in the ledger.
set_cached_balance(ledger, balance) ==
    [ledger EXCEPT ![current_account].balance = balance]

\* (mutant) no state check at all.
not_in_state_missing(required) == FALSE

\* The first check of every operation but eject_card:
\* `if self._state != ATMState.<required>: raise ATMException(...)`.
not_in_state(required) == state # required

\* ATMController.insert_card
insert_card(card_number) ==
    IF not_in_state(IDLE)
    THEN /\ Report("insert_card", card_number, 0, ATMException, FALSE, <<>>)
         /\ UNCHANGED <<state, current_card, current_account, transaction_history, accounts,
                        available_cash, total_dispensed, card_inserted, reader_card, completed>>
    ELSE IF ~validate_card(card_number)
    THEN /\ reset_session
         /\ completed' = <<>>
         /\ Report("insert_card", card_number, 0, InvalidCardException, FALSE,
                   <<Call("bank.validate_card", card_number, 0, "False")>>)
         /\ UNCHANGED <<accounts, available_cash, total_dispensed, card_inserted, reader_card>>
    ELSE LET r == read_card(card_number)
             trace == <<Call("bank.validate_card", card_number, 0, "True"),
                        Call("reader.read_card", card_number, 0, r.err)>>
         IN  IF r.err # OK
             THEN /\ reset_session
                  /\ completed' = <<>>
                  /\ Report("insert_card", card_number, 0, r.err, FALSE, trace)
                  /\ UNCHANGED <<accounts, available_cash, total_dispensed,
                                 card_inserted, reader_card>>
             ELSE /\ card_inserted' = TRUE
                  /\ reader_card' = r.card
                  /\ current_card' = r.card
                  /\ state' = CARD_INSERTED
                  /\ Report("insert_card", card_number, 0, OK, TRUE, trace)
                  /\ UNCHANGED <<current_account, transaction_history, accounts,
                                 available_cash, total_dispensed, completed>>

\* (mutant) enter_pin with the handler of insert_card around the bank call:
\* whatever verify_pin raises resets the session.
enter_pin_with_resets_on_any_error(pin, verify) ==
    IF not_in_state(CARD_INSERTED) \/ current_card = None
    THEN /\ Report("enter_pin", pin, 0, ATMException, FALSE, <<>>)
         /\ UNCHANGED <<state, current_card, current_account, transaction_history, accounts,
                        available_cash, total_dispensed, card_inserted, reader_card, completed>>
    ELSE IF verify.err # OK \/ ~verify.value
    THEN /\ reset_session
         /\ completed' = <<>>
         /\ Report("enter_pin", pin, 0,
                   IF verify.err # OK THEN verify.err ELSE InvalidPinException, FALSE,
                   <<Call("bank.verify_pin", current_card, 0,
                          IF verify.err # OK THEN verify.err ELSE "False")>>)
         /\ UNCHANGED <<accounts, available_cash, total_dispensed, card_inserted, reader_card>>
    ELSE /\ state' = PIN_VERIFIED
         /\ Report("enter_pin", pin, 0, OK, TRUE,
                   <<Call("bank.verify_pin", current_card, 0, "True")>>)
         /\ UNCHANGED <<current_card, current_account, transaction_history, accounts,
                        available_cash, total_dispensed, card_inserted, reader_card, completed>>

\* ATMController.enter_pin, wired to a bank whose verify_pin(card, pin) has the
\* outcome `verify`: the error it raises (or OK) and the value it returns.
enter_pin_with(pin, verify) ==
    IF not_in_state(CARD_INSERTED)
    THEN /\ Report("enter_pin", pin, 0, ATMException, FALSE, <<>>)
         /\ UNCHANGED <<state, current_card, current_account, transaction_history, accounts,
                        available_cash, total_dispensed, card_inserted, reader_card, completed>>
    ELSE IF current_card = None
    THEN /\ Report("enter_pin", pin, 0, ATMException, FALSE, <<>>)
         /\ UNCHANGED <<state, current_card, current_account, transaction_history, accounts,
                        available_cash, total_dispensed, card_inserted, reader_card, completed>>
    ELSE IF verify.err = InvalidPinException
    THEN /\ reset_session
         /\ completed' = <<>>
         /\ Report("enter_pin", pin, 0, InvalidPinException, FALSE,
                   <<Call("bank.verify_pin", current_card, 0, InvalidPinException)>>)
         /\ UNCHANGED <<accounts, available_cash, total_dispensed, card_inserted, reader_card>>
    ELSE IF verify.err # OK
    THEN /\ Report("enter_pin", pin, 0, verify.err, FALSE,
                   <<Call("bank.verify_pin", current_card, 0, verify.err)>>)
         /\ UNCHANGED <<state, current_card, current_account, transaction_history, accounts,
                        available_cash, total_dispensed, card_inserted, reader_card, completed>>
    ELSE IF ~verify.value
    THEN /\ reset_session
         /\ completed' = <<>>
         /\ Report("enter_pin", pin, 0, InvalidPinException, FALSE,
                   <<Call("bank.verify_pin", current_card, 0, "False")>>)
         /\ UNCHANGED <<accounts, available_cash, total_dispensed, card_inserted, reader_card>>
    ELSE /\ state' = PIN_VERIFIED
         /\ Report("enter_pin", pin, 0, OK, TRUE,
                   <<Call("bank.verify_pin", current_card, 0, "True")>>)
         /\ UNCHANGED <<current_card, current_account, transaction_history, accounts,
                        available_cash, total_dispensed, card_inserted, reader_card, completed>>

\* ATMController.enter_pin with the mock bank, whose verify_pin raises nothing.
enter_pin(pin) == enter_pin_with(pin, [err |-> OK, value |-> verify_pin(current_card, pin)])

\* ATMController.get_accounts (the operation; the bank's is get_accounts above)
controller_get_accounts ==
    IF not_in_state(PIN_VERIFIED)
    THEN /\ Report("get_accounts", "", 0, ATMException, FALSE, <<>>)
         /\ UNCHANGED <<state, current_card, current_account, transaction_history, accounts,
                        available_cash, total_dispensed, card_inserted, reader_card, completed>>
    ELSE IF current_card = None
    THEN /\ Report("get_accounts", "", 0, ATMException, FALSE, <<>>)
         /\ UNCHANGED <<state, current_card, current_account, transaction_history, accounts,
                        available_cash, total_dispensed, card_inserted, reader_card, completed>>
    ELSE /\ Report("get_accounts", "", 0, OK, get_accounts(current_card),
                   <<Call("bank.get_accounts", current_card, 0, OK)>>)
         /\ UNCHANGED <<state, current_card, current_account, transaction_history, accounts,
                        available_cash, total_dispensed, card_inserted, reader_card, completed>>

\* (mutant) no ownership check.
belongs_to_card_unchecked(account_number, card_number) == TRUE

\* The membership test of select_account:
\* account_number in [acc.account_number for acc in accounts]
belongs_to_card(account_number, card_number) ==
    \E i \in 1..Len(get_accounts(card_number)) : get_accounts(card_number)[i] = account_number

\* (mutant) select_account with the handler of enter_pin around it: an
\* account that is not found resets the session.
select_account_resets(account_number) ==
    IF not_in_state(PIN_VERIFIED) \/ current_card = None
    THEN /\ Report("select_account", account_number, 0, ATMException, FALSE, <<>>)
         /\ UNCHANGED <<state, current_card, current_account, transaction_history, accounts,
                        available_cash, total_dispensed, card_inserted, reader_card, completed>>
    ELSE IF get_account(account_number) = None \/ ~belongs_to_card(account_number, current_card)
    THEN /\ reset_session
         /\ completed' = <<>>
         /\ Report("select_account", account_number, 0, AccountNotFoundException, FALSE,
                   <<Call("bank.get_account", account_number, 0, get_account(account_number))>>)
         /\ UNCHANGED <<accounts, available_cash, total_dispensed, card_inserted, reader_card>>
    ELSE /\ current_account' = get_account(account_number)
         /\ state' = ACCOUNT_SELECTED
         /\ Report("select_account", account_number, 0, OK, get_account(account_number),
                   <<Call("bank.get_account", account_number, 0, OK),
                     Call("bank.get_accounts", current_card, 0, OK)>>)
         /\ UNCHANGED <<current_card, transaction_history, accounts, available_cash,
                        total_dispensed, card_inserted, reader_card, completed>>

\* ATMController.select_account
select_account(account_number) ==
    IF not_in_state(PIN_VERIFIED)
    THEN /\ Report("select_account", account_number, 0, ATMException, FALSE, <<>>)
         /\ UNCHANGED <<state, current_card, current_account, transaction_history, accounts,
                        available_cash, total_dispensed, card_inserted, reader_card, completed>>
    ELSE IF current_card = None
    THEN /\ Report("select_account", account_number, 0, ATMException, FALSE, <<>>)
         /\ UNCHANGED <<state, current_card, current_account, transaction_history, accounts,
                        available_cash, total_dispensed, card_inserted, reader_card, completed>>
    ELSE LET account == get_account(account_number)
         IN  IF account = None
             THEN /\ Report("select_account", account_number, 0, AccountNotFoundException, FALSE,
                            <<Call("bank.get_account", account_number, 0, None)>>)
                  /\ UNCHANGED <<state, current_card, current_account, transaction_history,
                                 accounts, available_cash, total_dispensed, card_inserted,
                                 reader_card, completed>>
             ELSE IF ~belongs_to_card(account_number, current_card)
             THEN /\ Report("select_account", account_number, 0, AccountNotFoundException, FALSE,
                            <<Call("bank.get_account", account_number, 0, OK),
                              Call("bank.get_accounts", current_card, 0, OK)>>)
                  /\ UNCHANGED <<state, current_card, current_account, transaction_history,
                                 accounts, available_cash, total_dispensed, card_inserted,
                                 reader_card, completed>>
             ELSE /\ current_account' = account
                  /\ state' = ACCOUNT_SELECTED
                  /\ Report("select_account", account_number, 0, OK, account,
                            <<Call("bank.get_account", account_number, 0, OK),
                              Call("bank.get_accounts", current_card, 0, OK)>>)
                  /\ UNCHANGED <<current_card, transaction_history, accounts, available_cash,
                                 total_dispensed, card_inserted, reader_card, completed>>

\* (mutant) only a negative amount is refused.
invalid_amount_negative_only(amount) == amount < 0

\* (mutant) no amount check at all.
invalid_amount_unchecked(amount) == FALSE

\* The amount check of deposit and withdraw:
\* `if amount <= 0: raise ATMException(...)`.
invalid_amount(amount) == amount <= 0

\* (mutant) get_balance that logs the inquiry as a transaction.
get_balance_logs_inquiry ==
    IF not_in_state(ACCOUNT_SELECTED) \/ current_account = None
    THEN /\ Report("get_balance", "", 0, ATMException, FALSE, <<>>)
         /\ UNCHANGED <<state, current_card, current_account, transaction_history, accounts,
                        available_cash, total_dispensed, card_inserted, reader_card, completed>>
    ELSE LET b == bank_get_balance(accounts, current_account)
         IN  /\ accounts' = set_cached_balance(accounts, b.value)
             /\ transaction_history' =
                    Append(transaction_history,
                           Transaction(BALANCE_INQUIRY, 0, current_account, b.value))
             /\ Report("get_balance", "", 0, OK, b.value,
                       <<Call("bank.get_balance", current_account, 0, b.err)>>)
             /\ UNCHANGED <<state, current_card, current_account, available_cash,
                            total_dispensed, card_inserted, reader_card, completed>>

\* ATMController.get_balance
get_balance ==
    IF not_in_state(ACCOUNT_SELECTED)
    THEN /\ Report("get_balance", "", 0, ATMException, FALSE, <<>>)
         /\ UNCHANGED <<state, current_card, current_account, transaction_history, accounts,
                        available_cash, total_dispensed, card_inserted, reader_card, completed>>
    ELSE IF current_account = None
    THEN /\ Report("get_balance", "", 0, ATMException, FALSE, <<>>)
         /\ UNCHANGED <<state, current_card, current_account, transaction_history, accounts,
                        available_cash, total_dispensed, card_inserted, reader_card, completed>>
    ELSE LET b == bank_get_balance(accounts, current_account)
             trace == <<Call("bank.get_balance", current_account, 0, b.err)>>
         IN  IF b.err # OK
             THEN /\ Report("get_balance", "", 0, b.err, FALSE, trace)
                  /\ UNCHANGED <<state, current_card, current_account, transaction_history,
                                 accounts, available_cash, total_dispensed, card_inserted,
                                 reader_card, completed>>
             ELSE /\ accounts' = set_cached_balance(accounts, b.value)
                  /\ Report("get_balance", "", 0, OK, b.value, trace)
                  /\ UNCHANGED <<state, current_card, current_account, transaction_history,
                                 available_cash, total_dispensed, card_inserted, reader_card,
                                 completed>>

\* ATMController.deposit
deposit(amount) ==
    IF not_in_state(ACCOUNT_SELECTED)
    THEN /\ Report("deposit", "", amount, ATMException, FALSE, <<>>)
         /\ UNCHANGED <<state, current_card, current_account, transaction_history, accounts,
                        available_cash, total_dispensed, card_inserted, reader_card, completed>>
    ELSE IF current_account = None
    THEN /\ Report("deposit", "", amount, ATMException, FALSE, <<>>)
         /\ UNCHANGED <<state, current_card, current_account, transaction_history, accounts,
                        available_cash, total_dispensed, card_inserted, reader_card, completed>>
    ELSE IF invalid_amount(amount)
    THEN /\ Report("deposit", "", amount, ATMException, FALSE, <<>>)
         /\ UNCHANGED <<state, current_card, current_account, transaction_history, accounts,
                        available_cash, total_dispensed, card_inserted, reader_card, completed>>
    ELSE LET d == bank_deposit(accounts, current_account, amount)
             trace == <<Call("bank.deposit", current_account, amount, d.err)>>
             transaction == Transaction(DEPOSIT, amount, current_account, d.value)
         IN  IF d.err # OK
             THEN /\ Report("deposit", "", amount, d.err, FALSE, trace)
                  /\ UNCHANGED <<state, current_card, current_account, transaction_history,
                                 accounts, available_cash, total_dispensed, card_inserted,
                                 reader_card, completed>>
             ELSE /\ transaction_history' = Append(transaction_history, transaction)
                  /\ accounts' = set_cached_balance(d.accounts, d.value)
                  /\ completed' = Append(completed, [op |-> "deposit", amount |-> amount,
                                                     account_number |-> current_account,
                                                     returned |-> d.value])
                  /\ Report("deposit", "", amount, OK, transaction, trace)
                  /\ UNCHANGED <<state, current_card, current_account, available_cash,
                                 total_dispensed, card_inserted, reader_card>>

\* (mutant) the second half of withdraw with the two collaborator calls
\* swapped: cash is dispensed first and the ledger debited afterwards.
withdraw_commit_dispense_first(amount, ledger, t1, dispense) ==
    LET t2 == Append(t1, Call("dispenser.dispense_cash", "", amount, dispense.err))
    IN  IF dispense.err # OK
        THEN /\ accounts' = ledger
             /\ Report("withdraw", "", amount, dispense.err, FALSE, t2)
             /\ UNCHANGED <<state, current_card, current_account, transaction_history,
                            available_cash, total_dispensed, card_inserted, reader_card,
                            completed>>
        ELSE LET w == bank_withdraw(ledger, current_account, amount)
                 t3 == Append(t2, Call("bank.withdraw", current_account, amount, w.err))
                 transaction == Transaction(WITHDRAWAL, amount, current_account, w.value)
             IN  /\ available_cash' = dispense.available_cash
                 /\ total_dispensed' = dispense.total_dispensed
                 /\ transaction_history' = Append(transaction_history, transaction)
                 /\ accounts' = set_cached_balance(w.accounts, w.value)
                 /\ completed' = Append(completed, [op |-> "withdraw", amount |-> amount,
                                                    account_number |-> current_account,
                                                    returned |-> w.value])
                 /\ Report("withdraw", "", amount, OK, transaction, t3)
                 /\ UNCHANGED <<state, current_card, current_account, card_inserted,
                                reader_card>>

\* The second half of ATMController.withdraw (after both checks passed):
\* debit the ledger `ledger`, dispense, log, refresh the cache.  `t1` are the
\* collaborator calls made so far, `dispense` the outcome of dispense_cash(amount).
withdraw_commit(amount, ledger, t1, dispense) ==
    LET w == bank_withdraw(ledger, current_account, amount)
        t2 == Append(t1, Call("bank.withdraw", current_account, amount, w.err))
    IN  IF w.err # OK
        THEN /\ accounts' = ledger
             /\ Report("withdraw", "", amount, w.err, FALSE, t2)
             /\ UNCHANGED <<state, current_card, current_account, transaction_history,
                            available_cash, total_dispensed, card_inserted, reader_card,
                            completed>>
        ELSE LET t3 == Append(t2, Call("dispenser.dispense_cash", "", amount, dispense.err))
                 transaction == Transaction(WITHDRAWAL, amount, current_account, w.value)
             IN  IF dispense.err # OK
                 THEN /\ accounts' = w.accounts
                      /\ available_cash' = dispense.available_cash
                      /\ total_dispensed' = dispense.total_dispensed
                      /\ Report("withdraw", "", amount, dispense.err, FALSE, t3)
                      /\ UNCHANGED <<state, current_card, current_account, transaction_history,
                                     card_inserted, reader_card, completed>>
                 ELSE /\ available_cash' = dispense.available_cash
                      /\ total_dispensed' = dispense.total_dispensed
                      /\ transaction_history' = Append(transaction_history, transaction)
                      /\ accounts' = set_cached_balance(w.accounts, w.value)
                      /\ completed' = Append(completed, [op |-> "withdraw", amount |-> amount,
                                                         account_number |-> current_account,
                                                         returned |-> w.value])
                      /\ Report("withdraw", "", amount, OK, transaction, t3)
                      /\ UNCHANGED <<state, current_card, current_account, card_inserted,
                                     reader_card>>

\* ATMController.withdraw, wired to a dispenser whose dispense_cash(amount)
\* has the outcome `dispense` (error, inventory and total afterwards).
withdraw_with(amount, dispense) ==
    IF not_in_state(ACCOUNT_SELECTED)
    THEN /\ Report("withdraw", "", amount, ATMException, FALSE, <<>>)
         /\ UNCHANGED <<state, current_card, current_account, transaction_history, accounts,
                        available_cash, total_dispensed, card_inserted, reader_card, completed>>
    ELSE IF current_account = None
    THEN /\ Report("withdraw", "", amount, ATMException, FALSE, <<>>)
         /\ UNCHANGED <<state, current_card, current_account, transaction_history, accounts,
                        available_cash, total_dispensed, card_inserted, reader_card, completed>>
    ELSE IF invalid_amount(amount)
    THEN /\ Report("withdraw", "", amount, ATMException, FALSE, <<>>)
         /\ UNCHANGED <<state, current_card, current_account, transaction_history, accounts,
                        available_cash, total_dispensed, card_inserted, reader_card, completed>>
    ELSE IF ~has_sufficient_cash(amount)
    THEN /\ Report("withdraw", "", amount, InsufficientCashException, FALSE,
                   <<Call("dispenser.has_sufficient_cash", "", amount, "False")>>)
         /\ UNCHANGED <<state, current_card, current_account, transaction_history, accounts,
                        available_cash, total_dispensed, card_inserted, reader_card, completed>>
    ELSE LET b == bank_get_balance(accounts, current_account)
             t1 == <<Call("dispenser.has_sufficient_cash", "", amount, "True"),
                     Call("bank.get_balance", current_account, 0, b.err)>>
         IN  IF b.err # OK
             THEN /\ Report("withdraw", "", amount, b.err, FALSE, t1)
                  /\ UNCHANGED <<state, current_card, current_account, transaction_history,
                                 accounts, available_cash, total_dispensed, card_inserted,
                                 reader_card, completed>>
             ELSE LET read == set_cached_balance(accounts, b.value)
                      current_balance == b.value
                  IN  IF current_balance < amount
                      THEN /\ accounts' = read
                           /\ Report("withdraw", "", amount, InsufficientFundsException, FALSE, t1)
                           /\ UNCHANGED <<state, current_card, current_account,
                                          transaction_history, available_cash, total_dispensed,
                                          card_inserted, reader_card, completed>>
                      ELSE withdraw_commit(amount, read, t1, dispense)

\* ATMController.withdraw with the mock dispenser.
withdraw(amount) == withdraw_with(amount, dispense_cash(amount))

\* (mutant) eject_card that calls the reader whether or not a card is held.
eject_card_always_calls_reader ==
    /\ card_inserted' = FALSE
    /\ reader_card' = None
    /\ reset_session
    /\ completed' = <<>>
    /\ Report("eject_card", "", 0, OK, TRUE, <<Call("reader.eject_card", "", 0, "True")>>)
    /\ UNCHANGED <<accounts, available_cash, total_dispensed>>

\* ATMController.eject_card
eject_card ==
    /\ IF current_card # None
       THEN /\ card_inserted' = FALSE
            /\ reader_card' = None
       ELSE UNCHANGED <<card_inserted, reader_card>>
    /\ reset_session
    /\ completed' = <<>>
    /\ Report("eject_card", "", 0, OK, TRUE,
              IF current_card # None THEN <<Call("reader.eject_card", "", 0, "True")>> ELSE <<>>)
    /\ UNCHANGED <<accounts, available_cash, total_dispensed>>

\* ------------------------------------------------------------ the machine
\* The state after ATMController.__init__ on freshly built mocks.  The ledger
\* balances are whatever the test set-up gave them, and account "2001" is the
\* mock's CHECKING account or a CREDIT account put in its place with
\* add_test_account.
Init ==
    /\ state = IDLE
    /\ current_card = None
    /\ current_account = None
    /\ transaction_history = <<>>
    /\ accounts \in {[n \in AccountNumbers |->
                        [account_type |-> IF n = "2001" THEN t ELSE account_type_of[n],
                         balance |-> b[n], is_active |-> TRUE,
                         daily_withdrawal_limit |->
                             default_daily_withdrawal_limit(
                                 IF n = "2001" THEN t ELSE account_type_of[n])]] :
                     b \in [AccountNumbers -> 0..MaxBalance], t \in {CHECKING, CREDIT}}
    /\ available_cash = MaxCash
    /\ total_dispensed = 0
    /\ card_inserted = FALSE
    /\ reader_card = None
    /\ last = [op |-> "init", key |-> "", amount |-> 0, result |-> OK, ret |-> TRUE]
    /\ calls = <<>>
    /\ completed = <<>>

\* A deposit or withdrawal that would succeed is taken only while the ledger
\* balance and the session log stay within the model's bounds.
WithinBounds(op, amount) ==
    LET succeeds ==
            /\ state = ACCOUNT_SELECTED
            /\ amount > 0
            /\ op = "withdraw" => /\ available_cash >= amount
                                  /\ accounts[current_account].balance >= amount
    IN  succeeds =>
            /\ Len(transaction_history) < MaxLog
            /\ op = "deposit" => accounts[current_account].balance + amount <= MaxBalance

InsertCard == \E card_number \in CardInputs : insert_card(card_number)
EnterPin == \E pin \in PinInputs : enter_pin(pin)
GetAccounts == controller_get_accounts
SelectAccount == \E account_number \in AccountInputs : select_account(account_number)
GetBalance == get_balance
Deposit == \E amount \in AmountInputs : WithinBounds("deposit", amount) /\ deposit(amount)
Withdraw == \E amount \in AmountInputs : WithinBounds("withdraw", amount) /\ withdraw(amount)
EjectCard == eject_card

Next ==
    \/ InsertCard
    \/ EnterPin
    \/ GetAccounts
    \/ SelectAccount
    \/ GetBalance
    \/ Deposit
    \/ Withdraw
    \/ EjectCard

Spec == Init /\ [][Next]_vars

\* ------------------------------------ a dispenser other than the mock
\* The CashDispenser contract lets dispense_cash raise InsufficientCashException
\* whatever has_sufficient_cash answered before (a jam, an inventory that
\* dropped in between).  Outcome of such a dispense_cash: no cash leaves.
dispense_cash_fails(amount) ==
    [err |-> InsufficientCashException, available_cash |-> available_cash,
     total_dispensed |-> total_dispensed]

\* A withdrawal that passes both checks and is debited, on a dispenser whose
\* dispense_cash then fails.
WithdrawDispenseFails ==
    \E amount \in AmountInputs :
        /\ state = ACCOUNT_SELECTED
        /\ amount > 0
        /\ has_sufficient_cash(amount)
        /\ accounts[current_account].balance >= amount
        /\ withdraw_with(amount, dispense_cash_fails(amount))

NextHardware ==
    \/ Next
    \/ WithdrawDispenseFails

SpecHardware == Init /\ [][NextHardware]_vars

\* ------------------------------------------------- Account.can_withdraw
\* An Account built with any combination of is_active, type, balance and an
\* explicit daily limit (Account.__post_init__ replaces a limit of None only).
InitAccount ==
    /\ state = IDLE
    /\ current_card = None
    /\ current_account = None
    /\ transaction_history = <<>>
    /\ accounts \in [{"1001"} -> [account_type : {CHECKING, SAVINGS, CREDIT},
                                  balance : 0..MaxBalance,
                                  is_active : BOOLEAN,
                                  daily_withdrawal_limit : 0..MaxAmount]]
    /\ available_cash = MaxCash
    /\ total_dispensed = 0
    /\ card_inserted = FALSE
    /\ reader_card = None
    /\ last = [op |-> "init", key |-> "", amount |-> 0, result |-> OK, ret |-> TRUE]
    /\ calls = <<>>
    /\ completed = <<>>

\* A call of can_withdraw on the account.
CanWithdraw ==
    \E amount \in AmountInputs :
        /\ Report("can_withdraw", "1001", amount, OK, can_withdraw(accounts["1001"], amount), <<>>)
        /\ UNCHANGED <<state, current_card, current_account, transaction_history, accounts,
                       available_cash, total_dispensed, card_inserted, reader_card, completed>>

NextAccount == CanWithdraw

SpecAccount == InitAccount /\ [][NextAccount]_vars

\* ------------------------------------------------- an inactive account
\* The machine over a ledger in which account "2001" was replaced, with
\* MockBankService.add_test_account, by an Account built with
\* is_active=False; every account holds one unit of money.
InitInactiveAccount ==
    /\ state = IDLE
    /\ current_card = None
    /\ current_account = None
    /\ transaction_history = <<>>
    /\ accounts = [n \in AccountNumbers |->
                      [account_type |-> account_type_of[n],
                       balance |-> 1,
                       is_active |-> n # "2001",
                       daily_withdrawal_limit |->
                           default_daily_withdrawal_limit(account_type_of[n])]]
    /\ available_cash = MaxCash
    /\ total_dispensed = 0
    /\ card_inserted = FALSE
    /\ reader_card = None
    /\ last = [op |-> "init", key |-> "", amount |-> 0, result |-> OK, ret |-> TRUE]
    /\ calls = <<>>
    /\ completed = <<>>

SpecInactiveAccount == InitInactiveAccount /\ [][Next]_vars

\* ------------------------------------------------ a bank that can fail
\* The errors a BankService other than the mock raises from verify_pin: one
\* of the ATM's own kinds, a kind from outside them, the PIN mismatch itself.
BankErrors == {ATMException, ValueError, InvalidPinException}

\* An enter_pin that reaches the bank, on a bank whose verify_pin raises.
EnterPinBankFails ==
    \E pin \in PinInputs, err \in BankErrors :
        /\ state = CARD_INSERTED
        /\ current_card # None
        /\ enter_pin_with(pin, [err |-> err, value |-> FALSE])

NextBankFails ==
    \/ Next
    \/ EnterPinBankFails

SpecBankFails == Init /\ [][NextBankFails]_vars

\* ------------------------------------------- a ledger with other clients
\* MockBankService.withdraw called on the held account by a client of the bank
\* other than this controller (a teller, another machine on a joint account)
\* right after a deposit made here: the ledger entry changes in place, after
\* the controller last wrote the balance it knows of.
ExternalLedgerChange ==
    \E amount \in 1..MaxAmount :
        LET r == bank_withdraw(accounts, current_account, amount)
        IN  /\ state = ACCOUNT_SELECTED
            /\ last.op = "deposit"
            /\ last.result = OK
            /\ r.err = OK
            /\ accounts' = r.accounts
            /\ Report("bank.withdraw", current_account, 0, OK, FALSE, <<>>)
            /\ UNCHANGED <<state, current_card, current_account, transaction_history,
                           available_cash, total_dispensed, card_inserted, reader_card,
                           completed>>

NextSharedLedger ==
    \/ Next
    \/ ExternalLedgerChange

\* The ledger as MockBankService.__init__ builds it: one fixed positive balance
\* for each account (the highest the model holds), account "2001" a CHECKING
\* account.
InitSharedLedger ==
    /\ Init
    /\ \A n \in AccountNumbers :
          /\ accounts[n].balance = MaxBalance
          /\ accounts[n].account_type = account_type_of[n]

SpecSharedLedger == InitSharedLedger /\ [][NextSharedLedger]_vars

\* ================================================================ claims
\* The state each gated operation requires, per the transition table.
RequiredState(op) ==
    CASE op = "insert_card" -> IDLE
      [] op = "enter_pin" -> CARD_INSERTED
      [] op \in {"get_accounts", "select_account"} -> PIN_VERIFIED
      [] op \in {"get_balance", "deposit", "withdraw"} -> ACCOUNT_SELECTED

GatedOps == {"insert_card", "enter_pin", "get_accounts", "select_account",
             "get_balance", "deposit", "withdraw"}

\* The session fields of the controller.
session == <<state, current_card, current_account, transaction_history>>

\* C1 (state gating): an operation other than eject_card that is called in a
\* state the transition table does not permit it in fails with ATMException
\* and leaves the state, held card, held account and log unchanged.
C1_StateGating ==
    [][(last'.op \in GatedOps /\ state # RequiredState(last'.op))
         => (last'.result = ATMException /\ UNCHANGED session)]_vars

\* C1 witness: withdraw was called in PIN_VERIFIED and was refused.
C1_Witness ==
    /\ last.op = "withdraw"
    /\ last.result = ATMException
    /\ state = PIN_VERIFIED

\* C2 (PIN reset): in CARD_INSERTED, enter_pin with a PIN that is not the
\* bank's PIN for the held card fails with InvalidPinException, ends in IDLE
\* and clears card, account and log; with the bank's PIN it ends in
\* PIN_VERIFIED and the held card is the same.
C2_PinReset ==
    [][(last'.op = "enter_pin" /\ state = CARD_INSERTED)
         => IF bank_cards[current_card].pin # last'.key
            THEN /\ last'.result = InvalidPinException
                 /\ state' = IDLE
                 /\ current_card' = None
                 /\ current_account' = None
                 /\ transaction_history' = <<>>
            ELSE /\ last'.result = OK
                 /\ state' = PIN_VERIFIED
                 /\ current_card' = current_card
                 /\ current_card' # None]_vars

\* C2 witness: a wrong PIN was entered and the session was reset.
C2_Witness ==
    /\ last.op = "enter_pin"
    /\ last.result = InvalidPinException
    /\ state = IDLE
    /\ current_card = None

\* Whether the bank links account n to the card (by its own tables).
LinkedTo(card_number, n) ==
    /\ card_number \in DOMAIN bank_card_accounts
    /\ \E i \in DOMAIN bank_card_accounts[card_number] : bank_card_accounts[card_number][i] = n

\* C3 (ownership enforcement): in PIN_VERIFIED, select_account(n) succeeds,
\* ending in ACCOUNT_SELECTED with n held, iff n exists in the bank and is
\* linked to the held card; otherwise it fails with AccountNotFoundException.
C3_Ownership ==
    [][(last'.op = "select_account" /\ state = PIN_VERIFIED)
         => LET n == last'.key
                owned == n \in DOMAIN accounts /\ LinkedTo(current_card, n)
            IN  /\ owned <=> (last'.result = OK /\ state' = ACCOUNT_SELECTED
                              /\ current_account' = n)
                /\ ~owned => last'.result = AccountNotFoundException]_vars

\* C3 witness: an account that exists but is linked to the other card was refused.
C3_Witness ==
    /\ last.op = "select_account"
    /\ last.key = "2001"
    /\ last.result = AccountNotFoundException
    /\ current_card = "1234567890123456"
    /\ state = PIN_VERIFIED

\* Whether the last operation made a collaborator call to method fn.
Called(trace, fn) == \E i \in DOMAIN trace : trace[i].fn = fn

\* C4 (insufficient cash): in ACCOUNT_SELECTED, withdraw(amount) with
\* amount > 0 and less cash than amount in the dispenser fails with
\* InsufficientCashException, whatever the ledger balance; the bank is not
\* asked to debit, and ledger, cash inventory, state and log are unchanged.
C4_InsufficientCash ==
    [][(last'.op = "withdraw" /\ state = ACCOUNT_SELECTED /\ last'.amount > 0
        /\ available_cash < last'.amount)
         => /\ last'.result = InsufficientCashException
            /\ ~Called(calls', "bank.withdraw")
            /\ UNCHANGED <<accounts, available_cash, total_dispensed, session>>]_vars

\* C4 witness: a withdrawal was refused for lack of cash while the ledger
\* balance was too low as well.
C4_Witness ==
    /\ last.op = "withdraw"
    /\ last.result = InsufficientCashException
    /\ state = ACCOUNT_SELECTED
    /\ available_cash < last.amount
    /\ accounts[current_account].balance < last.amount

\* C5 (insufficient funds): in ACCOUNT_SELECTED, withdraw(amount) with enough
\* cash in the dispenser and a ledger balance of the selected account below
\* amount fails with InsufficientFundsException whatever the account type;
\* nothing is dispensed, and ledger, log and state are unchanged.
C5_InsufficientFunds ==
    [][(last'.op = "withdraw" /\ state = ACCOUNT_SELECTED /\ last'.amount > 0
        /\ available_cash >= last'.amount
        /\ accounts[current_account].balance < last'.amount)
         => /\ last'.result = InsufficientFundsException
            /\ ~Called(calls', "dispenser.dispense_cash")
            /\ UNCHANGED <<accounts, available_cash, total_dispensed, session>>]_vars

\* C5 witness: a withdrawal from a CREDIT account was refused for lack of funds.
C5_Witness ==
    /\ last.op = "withdraw"
    /\ last.result = InsufficientFundsException
    /\ state = ACCOUNT_SELECTED
    /\ accounts[current_account].account_type = CREDIT
    /\ available_cash >= last.amount
    /\ accounts[current_account].balance < last.amount

\* The collaborator calls of a complete withdrawal, in order.
WithdrawalOrder ==
    <<"dispenser.has_sufficient_cash", "bank.get_balance", "bank.withdraw",
      "dispenser.dispense_cash">>

\* C6 (withdrawal ordering): the collaborator calls of a withdraw are an
\* initial part of: cash check, balance read, debit, dispense, each made only
\* after the one before it succeeded; the log is appended to only after all
\* four; and every dispense_cash call of any operation comes right after a
\* successful debit of the same amount on the selected account.
C6_WithdrawalOrdering ==
    /\ last.op = "withdraw" =>
         /\ Len(calls) <= Len(WithdrawalOrder)
         /\ \A i \in DOMAIN calls : calls[i].fn = WithdrawalOrder[i]
         /\ \A i \in DOMAIN calls : i < Len(calls) => calls[i].res \in {OK, "True"}
         /\ last.result = OK <=> (Len(calls) = 4 /\ calls[4].res = OK)
         /\ last.result = OK =>
              transaction_history[Len(transaction_history)].amount = calls[4].amount
    /\ \A i \in DOMAIN calls :
         calls[i].fn = "dispenser.dispense_cash" =>
           /\ i > 1
           /\ calls[i - 1].fn = "bank.withdraw"
           /\ calls[i - 1].res = OK
           /\ calls[i - 1].amount = calls[i].amount
           /\ calls[i - 1].key = current_account

\* C6 witness: a withdrawal went through all four collaborator calls.
C6_Witness ==
    /\ last.op = "withdraw"
    /\ last.result = OK
    /\ Len(calls) = 4
    /\ calls[4].fn = "dispenser.dispense_cash"

\* C7 (dispense-after-debit failure), as claimed: when the debit of a
\* withdraw succeeded and the dispense_cash call after it failed, the error
\* reported is not InsufficientCashException.
C7_DistinctFailureKind ==
    (/\ last.op = "withdraw"
     /\ \E i \in DOMAIN calls :
          /\ i > 1
          /\ calls[i].fn = "dispenser.dispense_cash"
          /\ calls[i].res # OK
          /\ calls[i - 1].fn = "bank.withdraw"
          /\ calls[i - 1].res = OK)
      => last.result # InsufficientCashException

\* What the collaborators and the controller own, without the observations.
program == <<state, current_card, current_account, transaction_history, accounts,
             available_cash, total_dispensed, card_inserted, reader_card>>

\* C8 (idempotent eject): eject_card, from any state, returns True and ends in
\* IDLE with no card, no account and an empty log; an eject_card right after
\* an eject_card changes nothing.
C8_IdempotentEject ==
    [][(last'.op = "eject_card")
         => /\ last'.result = OK
            /\ last'.ret = TRUE
            /\ state' = IDLE
            /\ current_card' = None
            /\ current_account' = None
            /\ transaction_history' = <<>>
            /\ last.op = "eject_card" => UNCHANGED program]_vars

\* C8 witness: a held card was ejected (the reader was called) after cash had
\* been dispensed; the controller is idle and the log is empty.
C8_Witness ==
    /\ last.op = "eject_card"
    /\ Len(calls) = 1
    /\ total_dispensed > 0
    /\ state = IDLE
    /\ transaction_history = <<>>

\* The transaction type a successful call logs.
TypeOfCall(op) == IF op = "deposit" THEN DEPOSIT ELSE WITHDRAWAL

\* Whether sequence s is an initial part of sequence t.
IsPrefix(s, t) == Len(s) <= Len(t) /\ \A i \in DOMAIN s : s[i] = t[i]

\* C9 (transaction log fidelity), in every state: the log has one entry per
\* successful deposit/withdraw call of the session, in call order, the i-th
\* with the type and amount of the i-th call and the balance the bank
\* returned for it.
C9_LogMatchesCalls ==
    /\ Len(transaction_history) = Len(completed)
    /\ \A i \in DOMAIN transaction_history :
         /\ transaction_history[i].transaction_type = TypeOfCall(completed[i].op)
         /\ transaction_history[i].amount = completed[i].amount
         /\ transaction_history[i].balance_after = completed[i].returned

\* C9, in every step: a successful deposit/withdraw appends one entry whose
\* balance_after is the ledger balance after the call; a failed call and a
\* get_balance leave the log alone; while the session lasts the log only grows
\* at its end.
C9_LogStep ==
    /\ (last'.op \in {"deposit", "withdraw"} /\ last'.result = OK)
         => /\ Len(transaction_history') = Len(transaction_history) + 1
            /\ transaction_history'[Len(transaction_history')].balance_after
                 = accounts'[current_account].balance
            /\ transaction_history'[Len(transaction_history')].amount = last'.amount
    /\ (last'.op = "get_balance" \/ (last'.op \in {"deposit", "withdraw"} /\ last'.result # OK))
         => transaction_history' = transaction_history
    /\ state' # IDLE => IsPrefix(transaction_history, transaction_history')

\* C9 (transaction log fidelity).
C9_LogFidelity == []C9_LogMatchesCalls /\ [][C9_LogStep]_vars

\* C9 witness: a deposit, then a withdrawal, then a failed withdrawal, in one
\* session: the log holds the two, in that order.
C9_Witness ==
    /\ Len(transaction_history) = 2
    /\ transaction_history[1].transaction_type = DEPOSIT
    /\ transaction_history[2].transaction_type = WITHDRAWAL
    /\ last.op = "withdraw"
    /\ last.result = InsufficientFundsException

\* Whether the bank or the reader turns the card down (by their own tables).
Rejected(n) ==
    \/ n \notin DOMAIN bank_cards
    \/ ~bank_cards[n].valid
    \/ n \notin DOMAIN reader_card_info
    \/ reader_card_info[n].expired

\* C10 (insert_card failure): in IDLE, insert_card of a card the bank does not
\* validate or the reader does not read fails with the error the refusing
\* collaborator reported, InvalidCardException, and the controller ends in
\* IDLE with no card, no account and an empty log.
C10_InsertCardFailure ==
    [][(last'.op = "insert_card" /\ state = IDLE /\ Rejected(last'.key))
         => /\ last'.result = InvalidCardException
            /\ calls'[Len(calls')].res \in {"False", last'.result}
            /\ state' = IDLE
            /\ current_card' = None
            /\ current_account' = None
            /\ transaction_history' = <<>>]_vars

\* C10 witness: a card the bank validated was refused by the reader (expired).
C10_Witness ==
    /\ last.op = "insert_card"
    /\ last.key = "4567890123456789"
    /\ last.result = InvalidCardException
    /\ Len(calls) = 2
    /\ state = IDLE
    /\ current_card = None

\* Whether the bank validates the card number (by its own table).
BankValid(n) == n \in DOMAIN bank_cards /\ bank_cards[n].valid

\* Whether the reader reads the card (by its own table).
ReaderReads(n) == n \in DOMAIN reader_card_info /\ ~reader_card_info[n].expired

\* C11 (insert_card success): in IDLE, insert_card(n) ends in CARD_INSERTED
\* holding card n iff the bank validates n and the reader reads n; the bank is
\* asked first, and the reader is asked only about a card the bank validated.
C11_InsertCardSuccess ==
    [][(last'.op = "insert_card" /\ state = IDLE)
         => LET n == last'.key
            IN  /\ (BankValid(n) /\ ReaderReads(n))
                     <=> (last'.result = OK /\ state' = CARD_INSERTED /\ current_card' = n)
                /\ Len(calls') >= 1
                /\ calls'[1].fn = "bank.validate_card"
                /\ calls'[1].key = n
                /\ \A i \in DOMAIN calls' :
                     calls'[i].fn = "reader.read_card"
                       => /\ i = 2
                          /\ calls'[i].key = n
                          /\ calls'[1].res = "True"
                          /\ BankValid(n)]_vars

\* C11 witness: a valid card was inserted; bank and reader were asked in turn.
C11_Witness ==
    /\ last.op = "insert_card"
    /\ last.result = OK
    /\ state = CARD_INSERTED
    /\ current_card = last.key
    /\ Len(calls) = 2
    /\ calls[1].fn = "bank.validate_card"
    /\ calls[2].fn = "reader.read_card"

\* C12 (non-positive amount): in ACCOUNT_SELECTED, deposit(amount) and
\* withdraw(amount) with amount <= 0 fail with ATMException without any
\* collaborator call, and state, held account, log, ledger and cash inventory
\* are unchanged.
C12_NonPositiveAmount ==
    [][(last'.op \in {"deposit", "withdraw"} /\ state = ACCOUNT_SELECTED /\ last'.amount <= 0)
         => /\ last'.result = ATMException
            /\ calls' = <<>>
            /\ UNCHANGED program]_vars

\* C12 witness: a deposit of 0 was refused in ACCOUNT_SELECTED.
C12_Witness ==
    /\ last.op = "deposit"
    /\ last.amount = 0
    /\ last.result = ATMException
    /\ state = ACCOUNT_SELECTED
    /\ calls = <<>>

\* The operations whose failures do not end the session.
OperationalOps == {"get_accounts", "select_account", "get_balance", "deposit", "withdraw"}

\* C13 (no reset on operational failures): when get_accounts, select_account,
\* get_balance, deposit or withdraw fails, for whatever reason, the state, the
\* held card and the log are what they were before the call.
C13_NoResetOnFailure ==
    [][(last'.op \in OperationalOps /\ last'.result # OK)
         => UNCHANGED <<state, current_card, transaction_history>>]_vars

\* C13 witness: in a session with a logged transaction a withdrawal failed for
\* lack of funds; the session goes on.
C13_Witness ==
    /\ last.op = "withdraw"
    /\ last.result = InsufficientFundsException
    /\ state = ACCOUNT_SELECTED
    /\ current_card # None
    /\ Len(transaction_history) = 1

\* C14 (linear progression): the state changes only from IDLE to
\* CARD_INSERTED by insert_card, from CARD_INSERTED to PIN_VERIFIED by
\* enter_pin, from PIN_VERIFIED to ACCOUNT_SELECTED by select_account, and from
\* any state to IDLE by eject_card or by the reset of a failed enter_pin or
\* insert_card.
C14_LinearProgression ==
    [][state' # state
         => \/ state = IDLE /\ state' = CARD_INSERTED
               /\ last'.op = "insert_card" /\ last'.result = OK
            \/ state = CARD_INSERTED /\ state' = PIN_VERIFIED
               /\ last'.op = "enter_pin" /\ last'.result = OK
            \/ state = PIN_VERIFIED /\ state' = ACCOUNT_SELECTED
               /\ last'.op = "select_account" /\ last'.result = OK
            \/ state' = IDLE
               /\ \/ last'.op = "eject_card"
                  \/ last'.op \in {"enter_pin", "insert_card"} /\ last'.result # OK]_vars

\* C14 witness: the last step of the progression was taken.
C14_Witness ==
    /\ state = ACCOUNT_SELECTED
    /\ last.op = "select_account"
    /\ last.result = OK

\* The ledger balances and the cash in the dispenser.
Balance(ledger) == [n \in DOMAIN ledger |-> ledger[n].balance]
money == <<Balance(accounts), available_cash, total_dispensed>>

\* C15 (no money movement without authentication).  A session is
\* authenticated only by enter_pin with the bank's PIN for the held card; the
\* card stays the same while the session lasts and the account once selected;
\* and a ledger balance or the cash inventory changes only in
\* ACCOUNT_SELECTED, by deposit or withdraw, on the held account alone, which
\* the bank links to the held card.
C15_AuthenticatedMoney ==
    [][/\ (state' = PIN_VERIFIED /\ state # PIN_VERIFIED)
            => /\ state = CARD_INSERTED
               /\ last'.op = "enter_pin"
               /\ bank_cards[current_card].pin = last'.key
               /\ bank_cards[current_card].valid
               /\ current_card' = current_card
       /\ (state' = ACCOUNT_SELECTED /\ state # ACCOUNT_SELECTED)
            => /\ state = PIN_VERIFIED
               /\ current_card' = current_card
               /\ LinkedTo(current_card, current_account')
       /\ (state' = ACCOUNT_SELECTED /\ state = ACCOUNT_SELECTED)
            => /\ current_card' = current_card
               /\ current_account' = current_account
       /\ money' # money
            => /\ state = ACCOUNT_SELECTED
               /\ state' = ACCOUNT_SELECTED
               /\ last'.op \in {"deposit", "withdraw"}
               /\ current_account \in DOMAIN accounts
               /\ LinkedTo(current_card, current_account)
               /\ \A n \in DOMAIN accounts :
                    n # current_account => accounts'[n].balance = accounts[n].balance]_vars

\* C15 witness: cash was dispensed to the holder of the second card from the
\* account linked to it.
C15_Witness ==
    /\ last.op = "withdraw"
    /\ last.result = OK
    /\ state = ACCOUNT_SELECTED
    /\ current_card = "2345678901234567"
    /\ current_account = "2001"

\* The balances of the accounts other than the held one stay as they are.
OthersUnchanged ==
    \A n \in DOMAIN accounts : n # current_account => accounts'[n] = accounts[n]

\* C16 (successful deposit): in ACCOUNT_SELECTED, deposit(amount) with
\* amount > 0 succeeds, raises the ledger balance of the held account by
\* exactly amount, returns a DEPOSIT transaction of that amount on that account
\* with balance_after the new ledger balance, appends exactly it to the log,
\* leaves the cached balance (which is the ledger entry) at the new balance,
\* and leaves the state, the other accounts and the cash as they were.
C16_DepositSuccess ==
    [][(last'.op = "deposit" /\ state = ACCOUNT_SELECTED /\ last'.amount > 0)
         => LET new_balance == accounts[current_account].balance + last'.amount
                transaction == [transaction_type |-> DEPOSIT, amount |-> last'.amount,
                                account_number |-> current_account,
                                balance_after |-> new_balance]
            IN  /\ last'.result = OK
                /\ accounts'[current_account].balance = new_balance
                /\ last'.ret = transaction
                /\ transaction_history' = Append(transaction_history, transaction)
                /\ accounts'[current_account'].balance = last'.ret.balance_after
                /\ OthersUnchanged
                /\ UNCHANGED <<state, current_card, current_account, available_cash,
                               total_dispensed>>]_vars

\* C16 witness: a deposit of 2 was made on an account that held nothing.
C16_Witness ==
    /\ last.op = "deposit"
    /\ last.result = OK
    /\ last.amount = 2
    /\ accounts[current_account].balance = 2
    /\ Len(transaction_history) = 1

\* C17 (successful withdrawal): in ACCOUNT_SELECTED, withdraw(amount) with
\* amount > 0, at least amount of cash in the dispenser and at least amount on
\* the ledger succeeds, lowers the ledger balance of the held account and the
\* cash inventory by exactly amount each, returns a WITHDRAWAL transaction with
\* balance_after the new ledger balance, appends exactly it to the log, and
\* stays in ACCOUNT_SELECTED.
C17_WithdrawSuccess ==
    [][(/\ last'.op = "withdraw"
        /\ state = ACCOUNT_SELECTED
        /\ last'.amount > 0
        /\ available_cash >= last'.amount
        /\ accounts[current_account].balance >= last'.amount)
         => LET new_balance == accounts[current_account].balance - last'.amount
                transaction == [transaction_type |-> WITHDRAWAL, amount |-> last'.amount,
                                account_number |-> current_account,
                                balance_after |-> new_balance]
            IN  /\ last'.result = OK
                /\ accounts'[current_account].balance = new_balance
                /\ available_cash' = available_cash - last'.amount
                /\ last'.ret = transaction
                /\ transaction_history' = Append(transaction_history, transaction)
                /\ OthersUnchanged
                /\ state' = ACCOUNT_SELECTED]_vars

\* C17 witness: the whole balance of an account was withdrawn, which took the
\* last of the cash.
C17_Witness ==
    /\ last.op = "withdraw"
    /\ last.result = OK
    /\ last.amount = 2
    /\ accounts[current_account].balance = 0
    /\ available_cash = 0
    /\ state = ACCOUNT_SELECTED

\* The last operation ended the session: a wrong PIN, a rejected card, an eject.
SessionEnded ==
    \/ last.op = "eject_card"
    \/ last.op = "enter_pin" /\ last.result = InvalidPinException
    \/ last.op = "insert_card" /\ last.result = InvalidCardException

\* C19 (reusable after reset): once a wrong PIN, a rejected card or an eject
\* has ended a session, the controller is in IDLE with the session data of a
\* new instance, and insert_card of a card that the bank accepts and the
\* reader reads succeeds again.
C19_ReusableAfterReset ==
    /\ [](SessionEnded => session = <<IDLE, None, None, <<>> >>)
    /\ [][(SessionEnded /\ last'.op = "insert_card"
             /\ BankValid(last'.key) /\ ReaderReads(last'.key))
            => /\ last'.result = OK
               /\ state' = CARD_INSERTED
               /\ current_card' = last'.key]_vars

\* C19 witness: a later session on the same instance went as far as a
\* withdrawal, after an earlier session in which cash had been dispensed.
C19_Witness ==
    /\ state = ACCOUNT_SELECTED
    /\ last.op = "withdraw"
    /\ last.result = OK
    /\ Len(transaction_history) = 1
    /\ total_dispensed > last.amount

\* The error kinds the controller declares.  InvalidOperation and
\* InvalidAmount are both raised as the base ATMException.
DeclaredKinds ==
    {ATMException, InvalidCardException, InvalidPinException, AccountNotFoundException,
     InsufficientFundsException, InsufficientCashException}

\* C20 (closed error taxonomy): every operation returns its success value or
\* fails with one of the declared kinds; no collaborator's ValueError reaches
\* the caller, and no collaborator call of the operation ended in one.
C20_ClosedTaxonomy ==
    /\ last.result \in DeclaredKinds \cup {OK}
    /\ \A i \in DOMAIN calls : calls[i].res # ValueError

\* C20 witness: a withdrawal of a negative amount, which the bank and the
\* dispenser would answer with a ValueError, failed with the controller's own
\* error.
C20_Witness ==
    /\ last.op = "withdraw"
    /\ last.amount = -1
    /\ last.result = ATMException
    /\ state = ACCOUNT_SELECTED

\* C18 (balance authority): a withdraw that reaches the funds check reads the
\* balance of the held account from the bank, before any debit, and decides by
\* the ledger balance as it stands during the call: it fails for lack of funds
\* exactly when that balance is below the amount, whatever balance the
\* controller recorded last.
C18_BalanceAuthority ==
    [][(/\ last'.op = "withdraw"
        /\ state = ACCOUNT_SELECTED
        /\ last'.amount > 0
        /\ available_cash >= last'.amount)
         => /\ Len(calls') >= 2
            /\ calls'[2] = Call("bank.get_balance", current_account, 0, OK)
            /\ \A i \in DOMAIN calls' : calls'[i].fn = "bank.withdraw" => i > 2
            /\ last'.result = InsufficientFundsException
                 <=> accounts[current_account].balance < last'.amount
            /\ last'.result = OK
                 <=> accounts[current_account].balance >= last'.amount]_vars

\* C18 witness: the balance the controller recorded last covered the amount,
\* the ledger had been debited since, and the withdrawal was refused.
C18_Witness ==
    /\ last.op = "withdraw"
    /\ last.result = InsufficientFundsException
    /\ transaction_history # <<>>
    /\ transaction_history[Len(transaction_history)].balance_after >= last.amount

\* The step ends the session: an eject, a wrong PIN, a rejected card.
SessionEnds ==
    \/ last'.op = "eject_card"
    \/ last'.op = "enter_pin" /\ last'.result = InvalidPinException
    \/ last'.op = "insert_card" /\ last'.result = InvalidCardException

\* C21 (session-scoped log): a step that ends the session leaves the log
\* empty and the ledger and the cash inventory as the session made them, and a
\* session that insert_card opens starts with an empty log.
C21_SessionScopedLog ==
    [][/\ SessionEnds
            => /\ transaction_history' = <<>>
               /\ UNCHANGED <<accounts, available_cash, total_dispensed>>
       /\ (last'.op = "insert_card" /\ last'.result = OK)
            => transaction_history' = <<>>]_vars

\* C21 witness: a session in which cash was dispensed was ended by
\* eject_card; the log is empty, the cash stays dispensed.
C21_Witness ==
    /\ last.op = "eject_card"
    /\ state = IDLE
    /\ transaction_history = <<>>
    /\ available_cash < MaxCash
    /\ total_dispensed > 0

\* C22 (enter_pin, errors other than a PIN mismatch): in CARD_INSERTED, when
\* the bank's verify_pin raises an error that is not the PIN mismatch,
\* enter_pin fails with that error and the controller stays in CARD_INSERTED
\* with the card it held; nothing is reset.
C22_EnterPinOtherErrors ==
    [][(/\ last'.op = "enter_pin"
        /\ state = CARD_INSERTED
        /\ Len(calls') = 1
        /\ calls'[1].res \in BankErrors \ {InvalidPinException})
         => /\ last'.result = calls'[1].res
            /\ state' = CARD_INSERTED
            /\ current_card' = current_card
            /\ current_card' # None
            /\ UNCHANGED program]_vars

\* C22 witness: verify_pin raised a ValueError; the card is still in and the
\* PIN can be entered again.
C22_Witness ==
    /\ last.op = "enter_pin"
    /\ last.result = ValueError
    /\ calls = <<Call("bank.verify_pin", current_card, 0, ValueError)>>
    /\ state = CARD_INSERTED
    /\ current_card # None

\* C23 (get_balance): in ACCOUNT_SELECTED, get_balance returns the ledger
\* balance of the held account, leaves the held account's balance at that
\* value, and changes neither the state, the log (no BALANCE_INQUIRY entry),
\* any ledger balance nor the cash inventory.
C23_GetBalance ==
    [][(last'.op = "get_balance" /\ state = ACCOUNT_SELECTED)
         => /\ last'.result = OK
            /\ last'.ret = accounts[current_account].balance
            /\ accounts'[current_account'].balance = last'.ret
            /\ calls' = <<Call("bank.get_balance", current_account, 0, OK)>>
            /\ UNCHANGED <<state, transaction_history, accounts, available_cash,
                           total_dispensed>>]_vars

\* C23 witness: the balance was asked for after a withdrawal in the session;
\* the log still holds that one entry, of the balance returned.
C23_Witness ==
    /\ last.op = "get_balance"
    /\ last.result = OK
    /\ Len(transaction_history) = 1
    /\ transaction_history[1].transaction_type = WITHDRAWAL
    /\ last.ret = transaction_history[1].balance_after

\* C24 (get_accounts): in PIN_VERIFIED, get_accounts returns the bank's list
\* for the held card, in the bank's order and with no account that is linked
\* to another card only, and leaves the state, the held card, the held account
\* and the log as they were.
C24_GetAccounts ==
    [][(last'.op = "get_accounts" /\ state = PIN_VERIFIED)
         => /\ last'.result = OK
            /\ last'.ret = bank_card_accounts[current_card]
            /\ \A i \in DOMAIN last'.ret : LinkedTo(current_card, last'.ret[i])
            /\ state' = PIN_VERIFIED
            /\ UNCHANGED session]_vars

\* C24 witness: the holder of the first card was shown its two accounts and
\* not the account of the second card.
C24_Witness ==
    /\ last.op = "get_accounts"
    /\ last.result = OK
    /\ last.ret = <<"1001", "1002">>
    /\ state = PIN_VERIFIED
    /\ current_card = "1234567890123456"

\* C25 (cache refresh): right after a successful get_balance, deposit or
\* withdraw the balance of the held Account is the ledger balance of that
\* account as the bank's bookkeeping makes it (the balance before, plus the
\* amount deposited, minus the amount withdrawn), which is the balance the
\* call reports.
C25_CacheRefresh ==
    [][(last'.op \in {"get_balance", "deposit", "withdraw"} /\ last'.result = OK)
         => LET before == accounts[current_account].balance
                ledger_balance == CASE last'.op = "get_balance" -> before
                                    [] last'.op = "deposit" -> before + last'.amount
                                    [] last'.op = "withdraw" -> before - last'.amount
                reported == IF last'.op = "get_balance" THEN last'.ret
                            ELSE last'.ret.balance_after
            IN  /\ current_account' = current_account
                /\ accounts'[current_account'].balance = ledger_balance
                /\ reported = ledger_balance]_vars

\* C25 witness: a deposit of 1 on a balance of 1; the held account shows 2.
C25_Witness ==
    /\ last.op = "deposit"
    /\ last.result = OK
    /\ last.amount = 1
    /\ last.ret.balance_after = 2
    /\ accounts[current_account].balance = 2

\* What the bank calls of an operation that succeeded add to the balance of
\* account n, and the cash its dispenser calls that succeeded give out.
RECURSIVE Booked(_, _)
Booked(trace, n) ==
    IF trace = <<>> THEN 0
    ELSE LET c == Head(trace)
             this == IF c.res # OK \/ c.key # n THEN 0
                     ELSE IF c.fn = "bank.deposit" THEN c.amount
                     ELSE IF c.fn = "bank.withdraw" THEN 0 - c.amount
                     ELSE 0
         IN  this + Booked(Tail(trace), n)

RECURSIVE Dispensed(_)
Dispensed(trace) ==
    IF trace = <<>> THEN 0
    ELSE LET c == Head(trace)
         IN  (IF c.fn = "dispenser.dispense_cash" /\ c.res = OK THEN c.amount ELSE 0)
               + Dispensed(Tail(trace))

\* C26 (collaborator-owned resources): over every operation, each ledger
\* balance changes by exactly what the bank deposit and withdraw calls of the
\* operation booked on it, and the cash inventory by exactly what its
\* dispense_cash calls gave out; the controller's writes to the held Account,
\* which is the ledger's own object, change no ledger balance.
C26_CollaboratorOwned ==
    [][/\ \A n \in DOMAIN accounts :
            accounts'[n].balance = accounts[n].balance + Booked(calls', n)
       /\ DOMAIN accounts' = DOMAIN accounts
       /\ available_cash' = available_cash - Dispensed(calls')
       /\ total_dispensed' = total_dispensed + Dispensed(calls')]_vars

\* C26 witness: get_balance wrote a balance of 2 to the held Account, which is
\* the ledger's object, after a deposit in the session; the ledger balance is
\* the 2 the deposit booked.
C26_Witness ==
    /\ last.op = "get_balance"
    /\ last.result = OK
    /\ last.ret = 2
    /\ Len(transaction_history) = 1
    /\ transaction_history[1].transaction_type = DEPOSIT
    /\ accounts[current_account].balance = 2

\* C27 (eject and the reader): eject_card calls the reader's eject_card, once,
\* exactly when the controller holds a card at the call; with no card held, as
\* in IDLE, the reader is not called and keeps what it has.
C27_EjectAndReader ==
    [][(last'.op = "eject_card")
         => /\ current_card # None => calls' = <<Call("reader.eject_card", "", 0, "True")>>
            /\ current_card = None => /\ calls' = <<>>
                                      /\ UNCHANGED <<card_inserted, reader_card>>
            /\ state = IDLE => calls' = <<>>]_vars

\* C27 witness: eject_card in IDLE after a wrong PIN: the controller held no
\* card, the reader was not called and still has the card in it.
C27_Witness ==
    /\ last.op = "eject_card"
    /\ calls = <<>>
    /\ card_inserted
    /\ reader_card # None
    /\ state = IDLE

\* The outcome of withdraw as the state, the sign of the amount, the cash
\* inventory and the ledger balance fix it.
WithdrawOutcome(amount) ==
    IF state # ACCOUNT_SELECTED THEN ATMException
    ELSE IF amount <= 0 THEN ATMException
    ELSE IF available_cash < amount THEN InsufficientCashException
    ELSE IF accounts[current_account].balance < amount THEN InsufficientFundsException
    ELSE OK

\* C28 (daily limit not enforced by withdraw): the outcome of withdraw is
\* fixed by the state, the amount being positive, the cash inventory and the
\* ledger balance; an amount above the daily_withdrawal_limit of the held
\* account is withdrawn when cash and funds suffice.
C28_DailyLimitNotEnforced ==
    [][(last'.op = "withdraw")
         => /\ last'.result = WithdrawOutcome(last'.amount)
            /\ (/\ state = ACCOUNT_SELECTED
                /\ last'.amount > accounts[current_account].daily_withdrawal_limit
                /\ available_cash >= last'.amount
                /\ accounts[current_account].balance >= last'.amount)
                 => /\ last'.result = OK
                    /\ accounts'[current_account].balance
                         = accounts[current_account].balance - last'.amount]_vars

\* C28 witness: twice the daily limit was withdrawn from the SAVINGS account.
C28_Witness ==
    /\ last.op = "withdraw"
    /\ last.result = OK
    /\ current_account = "1002"
    /\ accounts[current_account].account_type = SAVINGS
    /\ last.amount > accounts[current_account].daily_withdrawal_limit

\* C29 (Account.can_withdraw): can_withdraw(amount) is true iff the account
\* is active, amount > 0, amount does not exceed daily_withdrawal_limit, and
\* the account is a CREDIT account or balance >= amount, a daily limit of 0
\* included.
C29_CanWithdraw ==
    last.op = "can_withdraw"
      => LET account == accounts[last.key]
         IN  last.ret <=> /\ account.is_active
                          /\ last.amount > 0
                          /\ last.amount <= account.daily_withdrawal_limit
                          /\ \/ account.account_type = CREDIT
                             \/ account.balance >= last.amount

\* Whether the card's expiry date has passed (by the reader's table).
Expired(n) == n \in DOMAIN reader_card_info /\ reader_card_info[n].expired

\* C30 (expired cards), as stated: every insert_card of an expired card fails
\* with InvalidCard and ends in IDLE, never in CARD_INSERTED.
C30_ExpiredCardAnyState ==
    [][(last'.op = "insert_card" /\ Expired(last'.key))
         => /\ last'.result = InvalidCardException
            /\ state' = IDLE
            /\ state' # CARD_INSERTED]_vars

\* C30 (expired cards), amended: the controller never holds an expired card;
\* in IDLE, insert_card of an expired card fails with InvalidCard and ends in
\* IDLE with no card, whether or not the bank validates the number; in any
\* other state it is refused as an operation out of order and the state and
\* the held card stay as they were.
C30_ExpiredCards ==
    /\ [](current_card # None => ~Expired(current_card))
    /\ [][(last'.op = "insert_card" /\ Expired(last'.key))
            => /\ state = IDLE
                    => /\ last'.result = InvalidCardException
                       /\ state' = IDLE
                       /\ current_card' = None
               /\ state # IDLE
                    => /\ last'.result = ATMException
                       /\ calls' = <<>>
                       /\ UNCHANGED <<state, current_card>>]_vars

\* C30 witness: in IDLE, an expired card whose number the bank validates was
\* refused by the reader; the controller is idle and holds nothing.
C30_Witness ==
    /\ last.op = "insert_card"
    /\ Expired(last.key)
    /\ BankValid(last.key)
    /\ calls[1].res = "True"
    /\ last.result = InvalidCardException
    /\ state = IDLE
    /\ current_card = None
    /\ ~card_inserted

\* C31 (state/handle invariant): after every operation the controller holds a
\* card iff its state is not IDLE, holds an account iff its state is
\* ACCOUNT_SELECTED, and the log is non-empty only in ACCOUNT_SELECTED.
C31_StateHandle ==
    /\ current_card # None <=> state # IDLE
    /\ current_account # None <=> state = ACCOUNT_SELECTED
    /\ transaction_history # <<>> => state = ACCOUNT_SELECTED

\* C31 witness: select_account was refused in PIN_VERIFIED; a card is held, no
\* account, and the log is empty.
C31_Witness ==
    /\ last.op = "select_account"
    /\ last.result = AccountNotFoundException
    /\ state = PIN_VERIFIED
    /\ current_card # None
    /\ current_account = None
    /\ transaction_history = <<>>

\* C32 (reader/controller agreement): after every operation the card reader
\* reports a card inserted iff the controller holds a card; in IDLE, after a
\* wrong PIN too, the reader reports no card.
C32_ReaderAgreement ==
    /\ card_inserted <=> current_card # None
    /\ state = IDLE => ~card_inserted

\* The sum of the ledger balances of the accounts in S.
RECURSIVE LedgerTotal(_, _)
LedgerTotal(ledger, S) ==
    IF S = {} THEN 0
    ELSE LET n == CHOOSE x \in S : TRUE
         IN  ledger[n].balance + LedgerTotal(ledger, S \ {n})

\* C33 (cash/ledger conservation): with the mock bank and dispenser, the cash
\* dispensed is the initial inventory minus the available cash, and every
\* operation debits the ledger by exactly the cash it dispenses: a withdraw
\* lowers the ledger total and raises the cash dispensed by the same amount
\* (its own, or nothing), and no other operation dispenses or debits.
C33_CashLedgerConservation ==
    /\ [](total_dispensed = MaxCash - available_cash)
    /\ [][LET debited == LedgerTotal(accounts, DOMAIN accounts)
                           - LedgerTotal(accounts', DOMAIN accounts)
              dispensed == total_dispensed' - total_dispensed
          IN  /\ last'.op = "withdraw"
                   => /\ debited = dispensed
                      /\ dispensed = IF last'.result = OK THEN last'.amount ELSE 0
              /\ last'.op # "withdraw"
                   => /\ dispensed = 0
                      /\ debited <= 0]_vars

\* C33 witness: the inventory was emptied by withdrawals in two sessions.
C33_Witness ==
    /\ last.op = "withdraw"
    /\ last.result = OK
    /\ Len(transaction_history) = 1
    /\ last.amount < total_dispensed
    /\ total_dispensed = MaxCash
    /\ available_cash = 0

\* C34 (non-negative resources): no ledger balance, of an account of any type,
\* and no cash inventory is ever negative.
C34_NonNegative ==
    /\ \A n \in DOMAIN accounts : accounts[n].balance >= 0
    /\ available_cash >= 0

\* C34 witness: a withdrawal was refused at an empty dispenser on an
\* account that holds nothing.
C34_Witness ==
    /\ last.op = "withdraw"
    /\ last.result = InsufficientCashException
    /\ available_cash = 0
    /\ accounts[current_account].balance = 0

\* C35 (log entry invariant): in every reachable state every entry of the
\* log is a DEPOSIT or a WITHDRAWAL, never a BALANCE_INQUIRY, of an amount
\* > 0, on the account the controller holds.
C35_LogEntries ==
    \A i \in DOMAIN transaction_history :
        /\ transaction_history[i].transaction_type \in {DEPOSIT, WITHDRAWAL}
        /\ transaction_history[i].amount > 0
        /\ current_account # None
        /\ transaction_history[i].account_number = current_account

\* C35 witness: a log of a deposit and a withdrawal, with a balance inquiry
\* made after them.
C35_Witness ==
    /\ Len(transaction_history) = 2
    /\ transaction_history[1].transaction_type = DEPOSIT
    /\ transaction_history[2].transaction_type = WITHDRAWAL
    /\ last.op = "get_balance"
    /\ last.result = OK

\* C36 (account fixed per session): a held account stays the held account
\* until the session ends, which from ACCOUNT_SELECTED only eject_card does;
\* select_account in ACCOUNT_SELECTED fails with the state-violation error and
\* changes nothing; an account becomes the held one only by select_account in
\* PIN_VERIFIED, with no account held before.
C36_AccountFixed ==
    [][/\ current_account # None
            => \/ current_account' = current_account /\ state' = ACCOUNT_SELECTED
               \/ /\ current_account' = None
                  /\ state' = IDLE
                  /\ last'.op = "eject_card"
       /\ (last'.op = "select_account" /\ state = ACCOUNT_SELECTED)
            => /\ last'.result = ATMException
               /\ calls' = <<>>
               /\ UNCHANGED program
       /\ (current_account' # None /\ current_account' # current_account)
            => /\ current_account = None
               /\ state = PIN_VERIFIED
               /\ last'.op = "select_account"]_vars

\* C36 witness: with account "1001" held, the selection of the card's other
\* account was refused.
C36_Witness ==
    /\ last.op = "select_account"
    /\ last.key = "1002"
    /\ last.result = ATMException
    /\ state = ACCOUNT_SELECTED
    /\ current_account = "1001"

\* The deposits of the log minus its withdrawals.
RECURSIVE LogNet(_)
LogNet(log) ==
    IF log = <<>> THEN 0
    ELSE LET t == Head(log)
         IN  (IF t.transaction_type = DEPOSIT THEN t.amount
              ELSE IF t.transaction_type = WITHDRAWAL THEN 0 - t.amount
              ELSE 0) + LogNet(Tail(log))

\* C37 (ledger/log balance equation): with the controller the bank's only
\* client, the ledger balance of the held account minus the net of the log is
\* the same in every state of a session as it was at the selection, when the
\* log was empty; and the last entry of a non-empty log carries the current
\* ledger balance.
C37_BalanceEquation ==
    /\ []((state = ACCOUNT_SELECTED /\ transaction_history # <<>>)
            => transaction_history[Len(transaction_history)].balance_after
                 = accounts[current_account].balance)
    /\ [][/\ (state # ACCOUNT_SELECTED /\ state' = ACCOUNT_SELECTED)
               => /\ transaction_history' = <<>>
                  /\ accounts' = accounts
          /\ (state = ACCOUNT_SELECTED /\ state' = ACCOUNT_SELECTED)
               => accounts'[current_account'].balance - LogNet(transaction_history')
                    = accounts[current_account].balance - LogNet(transaction_history)]_vars

\* C37 witness: a deposit and then a withdrawal were logged; the ledger
\* balance is the one the withdrawal reported.
C37_Witness ==
    /\ state = ACCOUNT_SELECTED
    /\ last.op = "withdraw"
    /\ last.result = OK
    /\ Len(transaction_history) = 2
    /\ transaction_history[1].transaction_type = DEPOSIT
    /\ transaction_history[2].balance_after = accounts[current_account].balance

\* C38 (inactive accounts): no operation changes the ledger balance of an
\* account whose is_active flag is false, and none dispenses cash while such
\* an account is the held one.
C38_InactiveAccounts ==
    [][/\ \A n \in DOMAIN accounts :
            ~accounts[n].is_active => accounts'[n].balance = accounts[n].balance
       /\ (current_account # None /\ ~accounts[current_account].is_active)
            => UNCHANGED <<available_cash, total_dispensed>>]_vars

====
